---------------------------- MODULE Spec2Model ----------------------------
(***************************************************************************)
(* Business hours of the livechat server: AbstractBusinessHourBehavior     *)
(* (agent status synchronisation) and AbstractBusinessHourType (schedule   *)
(* save and work-hour normalisation) of AbstractBusinessHour.ts.           *)
(*                                                                         *)
(* Clock values "HH:mm" are minutes of the day, weekday names are day      *)
(* indices with Sunday = 0 (the week of moment's default locale), and an   *)
(* instant is a number of minutes counted from the start of the current    *)
(* week; it is negative or beyond the week when a conversion leaves it.    *)
(***************************************************************************)
EXTENDS Integers, Sequences, FiniteSets, TLC

\* ------------------------------------------------------------ bounds
MaxWindows == 2          \* work-hour entries in one draft
MaxSchedules == 2        \* identities the schedule collection can hold
MaxAgents == 2           \* agents in the users collection
MaxInFlight == 1         \* onNewAgentCreated calls between their first and last step

\* ------------------------------------------------- program constants
DaysInWeek == 7
MinutesInDay == 1440

\* ------------------------------------------------------------- values
ScheduleIds == 1..MaxSchedules
Agents == 1..MaxAgents
NoId == 0                \* a draft without _id; a lookup that found nothing

Sunday == 0
Monday == 1
Saturday == 6

\* the weekdays, clock strings and zones the drafts are drawn from
DraftDays == {Sunday, Saturday}
DraftClocks == {30, 1380}                          \* "00:30", "23:00"
Timezones == {"Europe/Madrid", "America/Sao_Paulo"}
ServerOffsets == {-180, 0, 330}                    \* minutes east of UTC

\* values a caller passes as `active', and their coercion by Boolean()
ActiveValues == {"true", "undefined", "1"}
Boolean(v) == IF v \in {"true", "1"} THEN "true" ELSE "false"

\* the offset moment-timezone resolves a zone name to (no DST in the model)
TzOffset(name) ==
    CASE name = "UTC" -> 0
      [] name = "Europe/Madrid" -> 60
      [] name = "America/Sao_Paulo" -> -180

\* --------------------------------------------------- moment operations
\* a clock string "HH:mm" as the caller writes it
ClockString(t) == [hhmm |-> t]
IsClockString(v) == DOMAIN v = {"hhmm"}

\* moment(`${day}:${clock}`, 'dddd:HH:mm'): the weekday of the current week at
\* the parsed clock; a value that is no clock string leaves HH:mm unparsed (00:00)
ParseDayClock(day, v) ==
    day * MinutesInDay + (IF IsClockString(v) THEN v.hhmm ELSE 0)

\* the conversion with the zone's offset applied the wrong way round
TzToUtcOffsetAdded(day, v, zone) == ParseDayClock(day, v) + TzOffset(zone)

\* moment.tz(..., zone).utc(): the instant of a local day and clock of the zone
TzToUtc(day, v, zone) == ParseDayClock(day, v) - TzOffset(zone)

\* format('dddd') and format('HH:mm') of an instant
FormatDay(m) == (m \div MinutesInDay) % DaysInWeek
FormatClock(m) == m % MinutesInDay

\* the server's offset taken away where the code adds it
ServerLocalOffsetSubtracted(m, offset) ==
    ParseDayClock(FormatDay(m), ClockString(FormatClock(m))) - offset

\* moment(utc.format('dddd:HH:mm'), 'dddd:HH:mm').add(offset / 60, 'hours')
ServerLocal(m, offset) ==
    ParseDayClock(FormatDay(m), ClockString(FormatClock(m))) + offset

formatDayOfTheWeekFromServerTimezoneAndUtcHour(m, format, offset) ==
    IF format = "dddd" THEN FormatDay(ServerLocal(m, offset))
                       ELSE FormatClock(ServerLocal(m, offset))

\* the value convertWorkHours stores in hour.start and hour.finish
NormalizedClock(v, m, offset) ==
    [time |-> v,
     utc  |-> [dayOfWeek |-> FormatDay(m), time |-> FormatClock(m)],
     cron |-> [dayOfWeek |-> formatDayOfTheWeekFromServerTimezoneAndUtcHour(m, "dddd", offset),
               time      |-> formatDayOfTheWeekFromServerTimezoneAndUtcHour(m, "HH:mm", offset)]]

ErrBefore == "error-business-hour-finish-time-before-start-time"
ErrEquals == "error-business-hour-finish-time-equals-start-time"
NoError == "none"

\* the validation of one entry without its second test
HourErrorNoEquals(hour, zone) ==
    LET startUtc  == TzToUtc(hour.day, hour.start, zone)
        finishUtc == TzToUtc(hour.day, hour.finish, zone)
    IN  IF hour.open /\ finishUtc < startUtc THEN ErrBefore ELSE NoError

\* the validation of one entry, open or not
HourErrorIgnoresOpen(hour, zone) ==
    LET startUtc  == TzToUtc(hour.day, hour.start, zone)
        finishUtc == TzToUtc(hour.day, hour.finish, zone)
    IN  IF finishUtc < startUtc THEN ErrBefore
        ELSE IF startUtc = finishUtc THEN ErrEquals
        ELSE NoError

\* the check convertWorkHours makes on one entry before it rewrites it
HourError(hour, zone) ==
    LET startUtc  == TzToUtc(hour.day, hour.start, zone)
        finishUtc == TzToUtc(hour.day, hour.finish, zone)
    IN  IF hour.open /\ finishUtc < startUtc THEN ErrBefore
        ELSE IF hour.open /\ startUtc = finishUtc THEN ErrEquals
        ELSE NoError

ConvertHour(hour, zone, offset) ==
    [hour EXCEPT
       !.start  = NormalizedClock(hour.start, TzToUtc(hour.day, hour.start, zone), offset),
       !.finish = NormalizedClock(hour.finish, TzToUtc(hour.day, hour.finish, zone), offset)]

\* index of the first entry forEach throws on, or 0
RECURSIVE FirstFailing(_, _, _)
FirstFailing(hours, zone, i) ==
    IF i > Len(hours) THEN 0
    ELSE IF HourError(hours[i], zone) # NoError THEN i
    ELSE FirstFailing(hours, zone, i + 1)

\* convertWorkHours(businessHourData): the entries are rewritten in place one by
\* one; a throw leaves the entries before the failing one rewritten.  The result
\* is the object as the call leaves it and the error thrown, if any.
convertWorkHours(data, offset) ==
    LET zone == data.timezone
        k    == FirstFailing(data.workHours, zone, 1)
        done == IF k = 0 THEN Len(data.workHours) ELSE k - 1
    IN  [data  |-> [data EXCEPT !.workHours =
                      [i \in 1..Len(data.workHours) |->
                         IF i <= done THEN ConvertHour(data.workHours[i], zone, offset)
                                      ELSE data.workHours[i]]],
         error |-> IF k = 0 THEN NoError ELSE HourError(data.workHours[k], zone)]

\* ---------------------------------------------------------------- drafts
Hour(day, start, finish, open) ==
    [day |-> day, start |-> ClockString(start), finish |-> ClockString(finish), open |-> open]

HoursOf(days, clocks) ==
    {Hour(d, s, f, o) : d \in days, s \in clocks, f \in clocks, o \in BOOLEAN}

\* the work-hour lists of 1..n entries over a set of entries
RECURSIVE HourLists(_, _)
HourLists(hours, n) ==
    IF n = 0 THEN {<<>>}
    ELSE LET shorter == HourLists(hours, n - 1)
         IN  shorter \cup {Append(l, h) : l \in {x \in shorter : Len(x) = n - 1}, h \in hours}

DraftsOver(ids, actives, zones, lists) ==
    {[_id |-> i, active |-> a, timezone |-> z, workHours |-> l] :
        i \in ids, a \in actives, z \in zones, l \in lists}

\* every draft within the bounds
Drafts ==
    DraftsOver({NoId} \cup ScheduleIds, ActiveValues, Timezones,
               HourLists(HoursOf(DraftDays, DraftClocks), MaxWindows) \ {<<>>})

NoDraft == [_id |-> NoId, active |-> "undefined", timezone |-> "UTC", workHours |-> <<>>]

\* ----------------------------------------------------------------- state
VARIABLES
    businessHours,        \* the schedule collection: _id -> record
    users,                \* the users collection: agent -> livechat fields
    now,                  \* the server's local day and clock, an instant of the week
    serverOffset,         \* moment().utcOffset() of the server process, in minutes
    pc,                   \* where each agent's onNewAgentCreated call stands
    defaultBusinessHour,  \* the record that call read at its first step
    businessHourToOpen,   \* what filterBusinessHoursThatMustBeOpened gave that call
    businessHourData,     \* the caller's draft object as the last save left it
    ret                   \* the last operation, its arguments and what it returned

vars == <<businessHours, users, now, serverOffset, pc, defaultBusinessHour,
          businessHourToOpen, businessHourData, ret>>

AVAILABLE == "available"
NOT_AVAILABLE == "not-available"
Statuses == {AVAILABLE, NOT_AVAILABLE}

\* livechatStatusSystemModified: true, false or not set on the document
MarkerValues == {"true", "false", "unset"}
StatusDefaults == {"online", "offline"}

\* how a step relates to the step before it, read from the record the step
\* before left in ret:
\*   "same"   the call repeats the call before it, with the same arguments (a
\*            draft passed again is the caller's object as the first call left
\*            it, or a copy of what the caller first passed); for
\*            onNewAgentCreated, both runs went from lookup to write with no
\*            other step in between
\*   "run"    a run of onNewAgentCreated with no other step in between so far
\*   "closed" allowAgentChangeServiceStatus is asked for the agent that
\*            onNewAgentCreated has just set not-available on a closed default
\*   ""       none of these
Completes(op, id) == op = "onNewAgentCreated" /\ id = NoId

After(op, agent, id, status, draft) ==
    IF op = "findOneDefaultBusinessHour" \/ Completes(op, id)
    THEN IF ret.op = "onNewAgentCreated" /\ ret.agent = agent /\ ret.after \in {"run", "same"}
         THEN "same" ELSE "run"
    ELSE IF op = "filterBusinessHoursThatMustBeOpened"
    THEN IF ret.op = "findOneDefaultBusinessHour" /\ ret.agent = agent THEN ret.after ELSE ""
    ELSE IF op = "onNewAgentCreated"
    THEN IF ret.op = "filterBusinessHoursThatMustBeOpened" /\ ret.agent = agent
         THEN ret.after ELSE ""
    ELSE IF op = "saveBusinessHour"
    THEN IF ret.op = op /\ draft \in {ret.draft, businessHourData} THEN "same" ELSE ""
    ELSE IF op = "allowAgentChangeServiceStatus" /\ ret.op = "onNewAgentCreated"
            /\ ret.agent = agent /\ ret.id # NoId /\ ~ret.flag
    THEN "closed"
    ELSE IF op \in {"changeAgentActiveStatus", "onDisableBusinessHours"}
            /\ ret.op = op /\ ret.agent = agent /\ ret.status = status
    THEN "same"
    ELSE ""

\* op: the operation; agent, id, status, draft: its arguments (id also the
\* identity it returned or worked on); flag: the boolean it returned or decided
\* on; error: the error it threw; after: see After
Return(op, agent, id, status, draft, flag, error) ==
    [op |-> op, agent |-> agent, id |-> id, status |-> status, draft |-> draft,
     flag |-> flag, error |-> error, after |-> After(op, agent, id, status, draft)]

\* --------------------------------------------------- schedule repository
NoRecord ==
    [_id |-> NoId, active |-> "false", timezone |-> "UTC", workHours |-> <<>>, default |-> FALSE]

\* updateOne({ _id }, { $set: data }): the fields of data replace those of the
\* matching document; no document matching, nothing is written
updateOne(store, id, data) ==
    IF id \in DOMAIN store
    THEN [store EXCEPT ![id] = [@ EXCEPT !.active = data.active,
                                         !.timezone = data.timezone,
                                         !.workHours = data.workHours]]
    ELSE store

\* insertOne(data) under the identity the collection gives the new document
insertOne(store, id, data) ==
    [i \in DOMAIN store \cup {id} |->
        IF i = id THEN [_id |-> id, active |-> data.active, timezone |-> data.timezone,
                        workHours |-> data.workHours, default |-> FALSE]
        ELSE store[i]]

\* findOneDefaultBusinessHour(): the identities of the documents it can return
DefaultIds(store) == {i \in DOMAIN store : store[i].default}

\* the instant of the week a stored day and clock name
WeekInstant(dc) == dc.dayOfWeek * MinutesInDay + dc.time

\* filterBusinessHoursThatMustBeOpened([bh]) is not empty: bh is active and the
\* server's day and clock lie in one of its open entries
MustBeOpened(bh, t) ==
    /\ bh.active = "true"
    /\ \E i \in 1..Len(bh.workHours) :
          LET hour == bh.workHours[i]
          IN  /\ hour.open
              /\ WeekInstant(hour.start.cron) <= t
              /\ t <= WeekInstant(hour.finish.cron)

\* ------------------------------------------------------ users repository
\* a query on one field: { field: value } or { field: { $ne: value } }
Eq(field, value) == [field |-> field, op |-> "eq", value |-> value]
Ne(field, value) == [field |-> field, op |-> "ne", value |-> value]

MatchesConditions(u, conditions) ==
    \A c \in conditions :
        IF c.op = "eq" THEN u[c.field] = c.value ELSE u[c.field] # c.value

\* setLivechatStatusIf(agentId, status, conditions, extraFields): one update of
\* the document of agentId, made only if the document matches the conditions;
\* extraFields is the value given to livechatStatusSystemModified
setLivechatStatusIf(us, agentId, status, conditions, extraFields) ==
    IF MatchesConditions(us[agentId], conditions)
    THEN [us EXCEPT ![agentId].statusLivechat = status,
                    ![agentId].livechatStatusSystemModified = extraFields]
    ELSE us

\* setLivechatStatus(agentId, status): the write of a status not set by the engine
setLivechatStatus(us, agentId, status) ==
    [us EXCEPT ![agentId].statusLivechat = status,
               ![agentId].livechatStatusSystemModified = "false"]

\* addBusinessHourByAgentIds(agentIds, businessHourId)
addBusinessHourByAgentIds(us, agentIds, id) ==
    [a \in DOMAIN us |->
        IF a \in agentIds
        THEN [us[a] EXCEPT !.statusLivechat = AVAILABLE,
                           !.openBusinessHours = @ \cup {id}]
        ELSE us[a]]

\* removeBusinessHoursFromAllUsers()
removeBusinessHoursFromAllUsers(us) ==
    [a \in DOMAIN us |-> [us[a] EXCEPT !.openBusinessHours = {}]]

\* isAgentWithinBusinessHours(agentId)
isAgentWithinBusinessHours(us, store, t, agentId) ==
    \E id \in us[agentId].openBusinessHours :
        id \in DOMAIN store /\ MustBeOpened(store[id], t)

\* ------------------------------------------- AbstractBusinessHourBehavior
\* onDisableBusinessHours that also takes every agent off line
onDisableBusinessHoursResetsStatus ==
    /\ users' = [a \in Agents |->
                   [removeBusinessHoursFromAllUsers(users)[a]
                       EXCEPT !.statusLivechat = NOT_AVAILABLE]]
    /\ ret' = Return("onDisableBusinessHours", 0, NoId, "", NoDraft, FALSE, NoError)
    /\ businessHourData' = NoDraft
    /\ UNCHANGED <<businessHours, now, serverOffset, pc, defaultBusinessHour, businessHourToOpen>>

onDisableBusinessHours ==
    /\ users' = removeBusinessHoursFromAllUsers(users)
    /\ ret' = Return("onDisableBusinessHours", 0, NoId, "", NoDraft, FALSE, NoError)
    /\ businessHourData' = NoDraft
    /\ UNCHANGED <<businessHours, now, serverOffset, pc, defaultBusinessHour, businessHourToOpen>>

\* allowAgentChangeServiceStatus answering the opposite of the repository
allowAgentChangeServiceStatusNegated(agentId) ==
    /\ ret' = Return("allowAgentChangeServiceStatus", agentId, NoId, "", NoDraft,
                     ~isAgentWithinBusinessHours(users, businessHours, now, agentId), NoError)
    /\ businessHourData' = NoDraft
    /\ UNCHANGED <<businessHours, users, now, serverOffset, pc, defaultBusinessHour,
                   businessHourToOpen>>

\* allowAgentChangeServiceStatus allowing every agent
allowAgentChangeServiceStatusAllowsAll(agentId) ==
    /\ ret' = Return("allowAgentChangeServiceStatus", agentId, NoId, "", NoDraft, TRUE, NoError)
    /\ businessHourData' = NoDraft
    /\ UNCHANGED <<businessHours, users, now, serverOffset, pc, defaultBusinessHour,
                   businessHourToOpen>>

allowAgentChangeServiceStatus(agentId) ==
    /\ ret' = Return("allowAgentChangeServiceStatus", agentId, NoId, "", NoDraft,
                     isAgentWithinBusinessHours(users, businessHours, now, agentId), NoError)
    /\ businessHourData' = NoDraft
    /\ UNCHANGED <<businessHours, users, now, serverOffset, pc, defaultBusinessHour,
                   businessHourToOpen>>

\* changeAgentActiveStatus without the statusDefault condition
changeAgentActiveStatusNoDefaultCheck(agentId, status) ==
    /\ users' = setLivechatStatusIf(users, agentId, status,
                    {Eq("livechatStatusSystemModified", "true")}, "true")
    /\ ret' = Return("changeAgentActiveStatus", agentId, NoId, status, NoDraft, FALSE, NoError)
    /\ businessHourData' = NoDraft
    /\ UNCHANGED <<businessHours, now, serverOffset, pc, defaultBusinessHour, businessHourToOpen>>

\* changeAgentActiveStatus with a further condition that skips an agent whose
\* stored status is not-available
changeAgentActiveStatusSkipsNotAvailable(agentId, status) ==
    /\ users' = setLivechatStatusIf(users, agentId, status,
                    {Eq("livechatStatusSystemModified", "true"), Ne("statusDefault", "offline"),
                     Ne("statusLivechat", NOT_AVAILABLE)},
                    "true")
    /\ ret' = Return("changeAgentActiveStatus", agentId, NoId, status, NoDraft, FALSE, NoError)
    /\ businessHourData' = NoDraft
    /\ UNCHANGED <<businessHours, now, serverOffset, pc, defaultBusinessHour, businessHourToOpen>>

changeAgentActiveStatus(agentId, status) ==
    /\ users' = setLivechatStatusIf(users, agentId, status,
                    {Eq("livechatStatusSystemModified", "true"), Ne("statusDefault", "offline")},
                    "true")
    /\ ret' = Return("changeAgentActiveStatus", agentId, NoId, status, NoDraft, FALSE, NoError)
    /\ businessHourData' = NoDraft
    /\ UNCHANGED <<businessHours, now, serverOffset, pc, defaultBusinessHour, businessHourToOpen>>

\* the first step without the return of the branch that found no default
onNewAgentCreatedFindNoReturn(agentId) ==
    /\ pc[agentId] = "idle"
    /\ Cardinality({a \in Agents : pc[a] # "idle"}) < MaxInFlight
    /\ IF DefaultIds(businessHours) = {}
       THEN /\ ret' = Return("onNewAgentCreated", agentId, NoId, "", NoDraft, FALSE, NoError)
            /\ users' = setLivechatStatus(users, agentId, NOT_AVAILABLE)
            /\ UNCHANGED <<pc, defaultBusinessHour>>
       ELSE \E id \in DefaultIds(businessHours) :
               /\ defaultBusinessHour' = [defaultBusinessHour EXCEPT ![agentId] = businessHours[id]]
               /\ pc' = [pc EXCEPT ![agentId] = "filter"]
               /\ ret' = Return("findOneDefaultBusinessHour", agentId, id, "", NoDraft, TRUE, NoError)
               /\ UNCHANGED users
    /\ businessHourData' = NoDraft
    /\ UNCHANGED <<businessHours, now, serverOffset, businessHourToOpen>>

\* onNewAgentCreated(agentId) up to its first await: the default schedule is read
onNewAgentCreatedFind(agentId) ==
    /\ pc[agentId] = "idle"
    /\ Cardinality({a \in Agents : pc[a] # "idle"}) < MaxInFlight
    /\ IF DefaultIds(businessHours) = {}
       THEN /\ ret' = Return("onNewAgentCreated", agentId, NoId, "", NoDraft, FALSE, NoError)
            /\ UNCHANGED <<pc, defaultBusinessHour>>
       ELSE \E id \in DefaultIds(businessHours) :
               /\ defaultBusinessHour' = [defaultBusinessHour EXCEPT ![agentId] = businessHours[id]]
               /\ pc' = [pc EXCEPT ![agentId] = "filter"]
               /\ ret' = Return("findOneDefaultBusinessHour", agentId, id, "", NoDraft, TRUE, NoError)
    /\ businessHourData' = NoDraft
    /\ UNCHANGED <<businessHours, users, now, serverOffset, businessHourToOpen>>

\* ... up to its second await: the record read is tested against the clock
onNewAgentCreatedFilter(agentId) ==
    /\ pc[agentId] = "filter"
    /\ businessHourToOpen' =
          [businessHourToOpen EXCEPT ![agentId] =
              IF MustBeOpened(defaultBusinessHour[agentId], now)
              THEN <<defaultBusinessHour[agentId]._id>> ELSE <<>>]
    /\ pc' = [pc EXCEPT ![agentId] = "write"]
    /\ ret' = Return("filterBusinessHoursThatMustBeOpened", agentId,
                     defaultBusinessHour[agentId]._id, "", NoDraft,
                     MustBeOpened(defaultBusinessHour[agentId], now), NoError)
    /\ businessHourData' = NoDraft
    /\ UNCHANGED <<businessHours, users, now, serverOffset, defaultBusinessHour>>

\* the last step with the test of businessHourToOpen.length inverted
onNewAgentCreatedWriteInverted(agentId) ==
    /\ pc[agentId] = "write"
    /\ IF Len(businessHourToOpen[agentId]) # 0
       THEN users' = setLivechatStatus(users, agentId, NOT_AVAILABLE)
       ELSE users' = addBusinessHourByAgentIds(users, {agentId},
                                               defaultBusinessHour[agentId]._id)
    /\ ret' = Return("onNewAgentCreated", agentId, defaultBusinessHour[agentId]._id, "",
                     NoDraft, Len(businessHourToOpen[agentId]) # 0, NoError)
    /\ pc' = [pc EXCEPT ![agentId] = "idle"]
    /\ defaultBusinessHour' = [defaultBusinessHour EXCEPT ![agentId] = NoRecord]
    /\ businessHourToOpen' = [businessHourToOpen EXCEPT ![agentId] = <<>>]
    /\ businessHourData' = NoDraft
    /\ UNCHANGED <<businessHours, now, serverOffset>>

\* the last step with the closed branch running on into the assignment
onNewAgentCreatedWriteFallsThrough(agentId) ==
    /\ pc[agentId] = "write"
    /\ IF Len(businessHourToOpen[agentId]) = 0
       THEN users' = addBusinessHourByAgentIds(
                         setLivechatStatus(users, agentId, NOT_AVAILABLE), {agentId},
                         defaultBusinessHour[agentId]._id)
       ELSE users' = addBusinessHourByAgentIds(users, {agentId},
                                               defaultBusinessHour[agentId]._id)
    /\ ret' = Return("onNewAgentCreated", agentId, defaultBusinessHour[agentId]._id, "",
                     NoDraft, Len(businessHourToOpen[agentId]) # 0, NoError)
    /\ pc' = [pc EXCEPT ![agentId] = "idle"]
    /\ defaultBusinessHour' = [defaultBusinessHour EXCEPT ![agentId] = NoRecord]
    /\ businessHourToOpen' = [businessHourToOpen EXCEPT ![agentId] = <<>>]
    /\ businessHourData' = NoDraft
    /\ UNCHANGED <<businessHours, now, serverOffset>>

\* ... to its end: the one write of the call
onNewAgentCreatedWrite(agentId) ==
    /\ pc[agentId] = "write"
    /\ IF Len(businessHourToOpen[agentId]) = 0
       THEN users' = setLivechatStatus(users, agentId, NOT_AVAILABLE)
       ELSE users' = addBusinessHourByAgentIds(users, {agentId},
                                               defaultBusinessHour[agentId]._id)
    /\ ret' = Return("onNewAgentCreated", agentId, defaultBusinessHour[agentId]._id, "",
                     NoDraft, Len(businessHourToOpen[agentId]) # 0, NoError)
    /\ pc' = [pc EXCEPT ![agentId] = "idle"]
    /\ defaultBusinessHour' = [defaultBusinessHour EXCEPT ![agentId] = NoRecord]
    /\ businessHourToOpen' = [businessHourToOpen EXCEPT ![agentId] = <<>>]
    /\ businessHourData' = NoDraft
    /\ UNCHANGED <<businessHours, now, serverOffset>>

\* ------------------------------------------------ AbstractBusinessHourType
\* baseSaveBusinessHour writing what it has before it looks at the error
baseSaveBusinessHourWritesOnError(store, draft, offset, insertedId) ==
    LET coerced   == [draft EXCEPT !.active = Boolean(draft.active)]
        converted == convertWorkHours(coerced, offset)
        data      == converted.data
    IN  IF data._id # NoId
        THEN [store |-> updateOne(store, data._id, data), data |-> data,
              id |-> IF converted.error = NoError THEN data._id ELSE NoId,
              error |-> converted.error]
        ELSE IF converted.error # NoError
        THEN [store |-> store, data |-> data, id |-> NoId, error |-> converted.error]
        ELSE [store |-> insertOne(store, insertedId, data), data |-> data,
              id |-> insertedId, error |-> NoError]

\* baseSaveBusinessHour without the test of businessHourData._id
baseSaveBusinessHourAlwaysInserts(store, draft, offset, insertedId) ==
    LET coerced   == [draft EXCEPT !.active = Boolean(draft.active)]
        converted == convertWorkHours(coerced, offset)
        data      == converted.data
        id        == IF insertedId # NoId THEN insertedId
                     ELSE CHOOSE i \in (ScheduleIds \cup {MaxSchedules + 1}) : i \notin DOMAIN store
    IN  IF converted.error # NoError
        THEN [store |-> store, data |-> data, id |-> NoId, error |-> converted.error]
        ELSE [store |-> insertOne(store, id, data), data |-> data,
              id |-> id, error |-> NoError]

\* baseSaveBusinessHour(businessHourData) with the identity insertOne would give:
\* the collection and the caller's object as the call leaves them, and what it
\* returns or throws
baseSaveBusinessHour(store, draft, offset, insertedId) ==
    LET coerced   == [draft EXCEPT !.active = Boolean(draft.active)]
        converted == convertWorkHours(coerced, offset)
        data      == converted.data
    IN  IF converted.error # NoError
        THEN [store |-> store, data |-> data, id |-> NoId, error |-> converted.error]
        ELSE IF data._id # NoId
        THEN [store |-> updateOne(store, data._id, data), data |-> data,
              id |-> data._id, error |-> NoError]
        ELSE [store |-> insertOne(store, insertedId, data), data |-> data,
              id |-> insertedId, error |-> NoError]

\* saveBusinessHour(businessHourData) of a type built on baseSaveBusinessHour
saveBusinessHour(draft) ==
    /\ \E insertedId \in (ScheduleIds \ DOMAIN businessHours) \cup {NoId} :
          \E saved \in {baseSaveBusinessHour(businessHours, draft, serverOffset, insertedId)} :
              \* an identity is drawn only by a call that reaches insertOne
              /\ (insertedId # NoId) <=> (saved.error = NoError /\ draft._id = NoId)
              /\ businessHours' = saved.store
              /\ businessHourData' = saved.data
              /\ ret' = Return("saveBusinessHour", 0, saved.id, "", draft,
                               saved.error = NoError, saved.error)
    /\ UNCHANGED <<users, now, serverOffset, pc, defaultBusinessHour, businessHourToOpen>>

\* ------------------------------------------------------------ environment
\* the agent changes the livechat status by hand
ManualSetStatus(agentId, status) ==
    /\ users' = setLivechatStatus(users, agentId, status)
    /\ ret' = Return("manual", agentId, NoId, status, NoDraft, FALSE, NoError)
    /\ businessHourData' = NoDraft
    /\ UNCHANGED <<businessHours, now, serverOffset, pc, defaultBusinessHour, businessHourToOpen>>

\* the agent changes the default presence status
SetStatusDefault(agentId, status) ==
    /\ users[agentId].statusDefault # status
    /\ users' = [users EXCEPT ![agentId].statusDefault = status]
    /\ ret' = Return("statusDefault", agentId, NoId, status, NoDraft, FALSE, NoError)
    /\ businessHourData' = NoDraft
    /\ UNCHANGED <<businessHours, now, serverOffset, pc, defaultBusinessHour, businessHourToOpen>>

\* the instants of the week the server's clock is looked at
NowValues == {1680, 2040, 9360}     \* Monday 04:00, Monday 10:00, Saturday 12:00

Tick ==
    /\ \E t \in NowValues \ {now} : now' = t
    /\ ret' = Return("tick", 0, NoId, "", NoDraft, FALSE, NoError)
    /\ businessHourData' = NoDraft
    /\ UNCHANGED <<businessHours, users, serverOffset, pc, defaultBusinessHour, businessHourToOpen>>

\* ------------------------------------------------------- specifications
\* a stored schedule: a draft as a successful save persists it
Stored(id, draft, offset, isDefault) ==
    LET data == convertWorkHours([draft EXCEPT !.active = Boolean(draft.active)], offset).data
    IN  [_id |-> id, active |-> data.active, timezone |-> data.timezone,
         workHours |-> data.workHours, default |-> isDefault]

SupportEU == [_id |-> NoId, active |-> "true", timezone |-> "Europe/Madrid",
              workHours |-> <<Hour(Monday, 540, 1020, TRUE)>>]
Weekend == [_id |-> NoId, active |-> "true", timezone |-> "America/Sao_Paulo",
            workHours |-> <<Hour(Saturday, 540, 1380, TRUE)>>]

EmptyStore == [i \in {} |-> NoRecord]

InitStores(offset) ==
    {EmptyStore,
     [i \in {1} |-> Stored(1, Weekend, offset, FALSE)],
     [i \in {1} |-> Stored(1, SupportEU, offset, TRUE)],
     [i \in {1, 2} |-> IF i = 1 THEN Stored(1, Weekend, offset, FALSE)
                                ELSE Stored(2, SupportEU, offset, TRUE)]}

UserStates(ids) ==
    [statusLivechat : Statuses, livechatStatusSystemModified : MarkerValues,
     statusDefault : StatusDefaults, openBusinessHours : SUBSET ids]

\* an agent no operation has touched yet
FreshUser == [statusLivechat |-> NOT_AVAILABLE, livechatStatusSystemModified |-> "unset",
              statusDefault |-> "online", openBusinessHours |-> {}]

InitCommon ==
    /\ pc = [a \in Agents |-> "idle"]
    /\ defaultBusinessHour = [a \in Agents |-> NoRecord]
    /\ businessHourToOpen = [a \in Agents |-> <<>>]
    /\ businessHourData = NoDraft
    /\ ret = [op |-> "init", agent |-> 0, id |-> NoId, status |-> "", draft |-> NoDraft,
              flag |-> FALSE, error |-> NoError, after |-> ""]

\* the behaviour class at work on the agents of a server three hours west of UTC
Init ==
    /\ InitCommon
    /\ now \in NowValues
    /\ serverOffset = -180
    /\ businessHours \in InitStores(serverOffset)
    /\ users \in [Agents -> UserStates(DOMAIN businessHours)]

Next ==
    \/ onDisableBusinessHours
    \/ \E a \in Agents : allowAgentChangeServiceStatus(a)
    \/ \E a \in Agents, s \in Statuses : changeAgentActiveStatus(a, s)
    \/ \E a \in Agents : onNewAgentCreatedFind(a)
    \/ \E a \in Agents : onNewAgentCreatedFilter(a)
    \/ \E a \in Agents : onNewAgentCreatedWrite(a)
    \/ \E a \in Agents, s \in Statuses : ManualSetStatus(a, s)
    \/ \E a \in Agents, s \in StatusDefaults : SetStatusDefault(a, s)
    \/ Tick

Spec == Init /\ [][Next]_vars

\* the type class: one save of a draft into a collection, both within the bounds
InitType ==
    /\ InitCommon
    /\ now = 2040
    /\ serverOffset \in ServerOffsets
    /\ businessHours = [i \in {1} |-> Stored(1, SupportEU, serverOffset, TRUE)]
    /\ users = [a \in Agents |-> FreshUser]

NextType == ret.op = "init" /\ \E d \in Drafts : saveBusinessHour(d)

SpecType == InitType /\ [][NextType]_vars

\* the calls a caller repeats: the operations of both classes on a collection
\* that is empty or holds the default schedule, each call free to come again
\* with the arguments of the call before it
RetryDrafts ==
    {[_id |-> NoId, active |-> "true", timezone |-> "Europe/Madrid",
      workHours |-> <<Hour(Saturday, 30, 1380, TRUE)>>],
     [_id |-> 1, active |-> "1", timezone |-> "Europe/Madrid",
      workHours |-> <<Hour(Sunday, 1380, 30, FALSE)>>],
     [_id |-> 1, active |-> "true", timezone |-> "America/Sao_Paulo",
      workHours |-> <<Hour(Saturday, 30, 1380, TRUE)>>]}

InitRetry ==
    /\ InitCommon
    /\ now \in {1680, 2040}
    /\ serverOffset = -180
    /\ businessHours \in {EmptyStore, [i \in {1} |-> Stored(1, SupportEU, serverOffset, TRUE)]}
    /\ \E u \in UserStates(DOMAIN businessHours) :
          users = [a \in Agents |-> IF a = 1 THEN u ELSE FreshUser]

\* the caller passes the object of the call before, as that call left it
saveBusinessHourAgain ==
    /\ ret.op = "saveBusinessHour"
    /\ ret.after = ""
    /\ saveBusinessHour(businessHourData)

NextRetry ==
    \/ onDisableBusinessHours
    \/ \E a \in Agents, s \in Statuses : changeAgentActiveStatus(a, s)
    \/ \E a \in Agents : onNewAgentCreatedFind(a)
    \/ \E a \in Agents : onNewAgentCreatedFilter(a)
    \/ \E a \in Agents : onNewAgentCreatedWrite(a)
    \/ ret.op \in {"init", "saveBusinessHour"} /\ \E d \in RetryDrafts : saveBusinessHour(d)
    \/ saveBusinessHourAgain

SpecRetry == InitRetry /\ [][NextRetry]_vars

\* ---------------------------------------------------------------- claims
\* the marker of a status the agent set by hand: the default status is offline,
\* or livechatStatusSystemModified is not true
ManualMarker(u) == u.statusDefault = "offline" \/ u.livechatStatusSystemModified # "true"

\* C1: a call of onNewAgentCreated that found a default schedule and found it open
\* ends with that schedule among the agent's schedules and the agent available.
C1_OpenDefaultAssigned ==
    (ret.op = "onNewAgentCreated" /\ ret.id # NoId /\ ret.flag)
        => /\ ret.id \in users[ret.agent].openBusinessHours
           /\ users[ret.agent].statusLivechat = AVAILABLE

C1_Witness ==
    /\ ret.op = "onNewAgentCreated" /\ ret.id # NoId /\ ret.flag
    /\ ret.id \in DefaultIds(businessHours)
    /\ MustBeOpened(businessHours[ret.id], now)
    /\ ret.id \in users[ret.agent].openBusinessHours
    /\ users[ret.agent].statusLivechat = AVAILABLE

\* C2: a call of onNewAgentCreated that found a default schedule and found it
\* closed ends with the agent not available and with the schedules the agent had
\* before its write: the default schedule is not added.
C2_ClosedDefaultNotAssigned ==
    [][(ret'.op = "onNewAgentCreated" /\ ret'.id # NoId /\ ~ret'.flag)
          => /\ users'[ret'.agent].statusLivechat = NOT_AVAILABLE
             /\ users'[ret'.agent].openBusinessHours = users[ret'.agent].openBusinessHours]_vars

C2_Witness ==
    /\ ret.op = "onNewAgentCreated" /\ ret.id # NoId /\ ~ret.flag
    /\ ret.id \in DefaultIds(businessHours)
    /\ ~MustBeOpened(businessHours[ret.id], now)
    /\ ret.id \notin users[ret.agent].openBusinessHours
    /\ users[ret.agent].statusLivechat = NOT_AVAILABLE

\* C3: changeAgentActiveStatus(agentId, available) leaves an agent not available
\* whose document carries the manual marker, whatever happened before.
C3_ManualNotAvailableKept ==
    [][(/\ ret'.op = "changeAgentActiveStatus" /\ ret'.status = AVAILABLE
        /\ ManualMarker(users[ret'.agent])
        /\ users[ret'.agent].statusLivechat = NOT_AVAILABLE)
          => users'[ret'.agent].statusLivechat = NOT_AVAILABLE]_vars

C3_Witness ==
    /\ ret.op = "changeAgentActiveStatus" /\ ret.status = AVAILABLE
    /\ users[ret.agent].statusDefault = "offline"
    /\ users[ret.agent].livechatStatusSystemModified = "true"
    /\ users[ret.agent].statusLivechat = NOT_AVAILABLE
    /\ users[ret.agent].openBusinessHours # {}

\* an open entry of a draft whose finish is not after its start, as instants
BadOrder(draft) ==
    \E k \in 1..Len(draft.workHours) :
        LET hour == draft.workHours[k]
        IN  /\ hour.open
            /\ TzToUtc(hour.day, hour.finish, draft.timezone)
                  <= TzToUtc(hour.day, hour.start, draft.timezone)

\* C4: a save of a draft with an open entry whose finish instant is equal to or
\* earlier than its start instant throws one of the two window-order errors.
C4_BadOrderRejected ==
    (ret.op = "saveBusinessHour" /\ BadOrder(ret.draft))
        => ret.error \in {ErrBefore, ErrEquals}

C4_Witness ==
    /\ ret.op = "saveBusinessHour" /\ ret.error = ErrEquals
    /\ Len(ret.draft.workHours) = 2
    /\ HourError(ret.draft.workHours[1], ret.draft.timezone) = NoError

\* C5: a save that throws a validation error leaves the schedule collection as
\* it was, at whichever entry the validation fails.
C5_FailedSaveWritesNothing ==
    [][(ret'.op = "saveBusinessHour" /\ ret'.error # NoError)
          => businessHours' = businessHours]_vars

C5_Witness ==
    /\ ret.op = "saveBusinessHour" /\ ret.error # NoError
    /\ FirstFailing(ret.draft.workHours, ret.draft.timezone, 1) = 2
    /\ ret.draft._id \in DOMAIN businessHours

\* C6 as claimed: allowAgentChangeServiceStatus returns true only for an agent
\* outside every open window of its schedules, and false for an agent inside one.
C6_Original ==
    ret.op = "allowAgentChangeServiceStatus"
        => (ret.flag => ~isAgentWithinBusinessHours(users, businessHours, now, ret.agent))

\* C6 as amended: allowAgentChangeServiceStatus returns what the repository's
\* isAgentWithinBusinessHours reports: true for an agent inside an open window
\* of one of its schedules, false for an agent outside all of them.
C6_AllowedWithinBusinessHours ==
    ret.op = "allowAgentChangeServiceStatus"
        => (ret.flag <=> isAgentWithinBusinessHours(users, businessHours, now, ret.agent))

C6_Witness ==
    /\ ret.op = "allowAgentChangeServiceStatus" /\ ret.flag
    /\ \E id \in users[ret.agent].openBusinessHours \cap DOMAIN businessHours :
          MustBeOpened(businessHours[id], now)

\* C7: no write of the core (changeAgentActiveStatus, onNewAgentCreated) changes
\* the status or the marker of an agent whose status was set by hand.
C7_CoreWritesGuarded ==
    [][\A a \in Agents :
          (/\ ret'.op \in {"changeAgentActiveStatus", "onNewAgentCreated"}
           /\ users[a].livechatStatusSystemModified = "false")
             => /\ users'[a].statusLivechat = users[a].statusLivechat
                /\ users'[a].livechatStatusSystemModified = "false"]_vars

C9_UpdateOrInsert ==
    [][(ret'.op = "saveBusinessHour" /\ ret'.error = NoError)
          => LET draft == ret'.draft
                 id    == ret'.id
                 Normalized(r) ==
                    /\ r.active = Boolean(draft.active)
                    /\ r.timezone = draft.timezone
                    /\ Len(r.workHours) = Len(draft.workHours)
                    /\ \A k \in 1..Len(draft.workHours) :
                          r.workHours[k] = ConvertHour(draft.workHours[k], draft.timezone,
                                                       serverOffset)
             IN  /\ \A i \in DOMAIN businessHours \ {id} :
                       i \in DOMAIN businessHours' /\ businessHours'[i] = businessHours[i]
                 /\ IF draft._id # NoId
                    THEN /\ id = draft._id
                         /\ DOMAIN businessHours' = DOMAIN businessHours
                         /\ id \in DOMAIN businessHours
                               => /\ Normalized(businessHours'[id])
                                  /\ businessHours'[id].default = businessHours[id].default
                    ELSE /\ id \notin DOMAIN businessHours
                         /\ DOMAIN businessHours' = DOMAIN businessHours \cup {id}
                         /\ Normalized(businessHours'[id])]_vars

C9_Witness ==
    /\ ret.op = "saveBusinessHour" /\ ret.error = NoError
    /\ ret.draft._id = NoId
    /\ Cardinality(DOMAIN businessHours) = 2
    /\ businessHours[ret.id].workHours = businessHourData.workHours
    /\ Len(businessHourData.workHours) = 2

\* C10: a call of onNewAgentCreated that finds no default schedule ends at once
\* and changes no agent and no schedule.
C10_NoDefaultNoChange ==
    [][(ret'.op = "onNewAgentCreated" /\ ret'.id = NoId)
          => /\ users' = users
             /\ businessHours' = businessHours
             /\ pc'[ret'.agent] = "idle"]_vars

C10_Witness ==
    /\ ret.op = "onNewAgentCreated" /\ ret.id = NoId
    /\ DefaultIds(businessHours) = {}
    /\ businessHours # EmptyStore
    /\ users[ret.agent].openBusinessHours # {}


\* the operations of the core, and a step that completes one of them as the
\* second of two calls in succession with the same arguments
CoreOperations == {"saveBusinessHour", "changeAgentActiveStatus", "onNewAgentCreated",
                   "onDisableBusinessHours"}
RecordsUnchanged == businessHours' = businessHours /\ users' = users

\* C11 as stated: the second of two calls in succession of any core operation,
\* save included, leaves the schedule and agent records as the first call left
\* them
C11_Original ==
    [][(ret'.op \in CoreOperations /\ ret'.after = "same") => RecordsUnchanged]_vars

\* C11: the second of two calls in succession, with the same arguments, of
\* changeAgentActiveStatus, onNewAgentCreated or onDisableBusinessHours leaves
\* the schedule and agent records as the first call left them; so does the
\* second save of a draft that carries an identity and is passed again as the
\* caller first wrote it
C11_RetryIdempotent ==
    [][(/\ ret'.after = "same"
        /\ \/ ret'.op \in CoreOperations \ {"saveBusinessHour"}
           \/ /\ ret'.op = "saveBusinessHour"
              /\ ret'.draft._id # NoId
              /\ ret'.draft = ret.draft)
       => RecordsUnchanged]_vars

\* a draft with an identity has been saved twice in succession, both times with
\* success, and the record holds its normalized entries
C11_Witness ==
    /\ ret.op = "saveBusinessHour"
    /\ ret.after = "same"
    /\ ret.draft \in RetryDrafts
    /\ ret.draft._id \in DOMAIN businessHours
    /\ ret.error = NoError
    /\ businessHours[ret.draft._id].workHours = businessHourData.workHours


\* ------------------------------------------------------ normalized values
WeekMinutes == DaysInWeek * MinutesInDay

\* a save that converted every entry and wrote
SavedOk == ret.op = "saveBusinessHour" /\ ret.error = NoError
Windows == 1..Len(ret.draft.workHours)

\* the instant of a local weekday and clock string in the authoring zone, and
\* the instant read back from a stored utc.dayOfWeek and utc.time
LocalInstant(day, clock, zone) == day * MinutesInDay + clock.hhmm - TzOffset(zone)
RederivedInstant(normalized) ==
    normalized.utc.dayOfWeek * MinutesInDay + normalized.utc.time

\* what the read-back instant of each end of entry k is ahead of its original by
StartDrift(k) ==
    RederivedInstant(businessHourData.workHours[k].start)
      - LocalInstant(ret.draft.workHours[k].day, ret.draft.workHours[k].start, ret.draft.timezone)
FinishDrift(k) ==
    RederivedInstant(businessHourData.workHours[k].finish)
      - LocalInstant(ret.draft.workHours[k].day, ret.draft.workHours[k].finish, ret.draft.timezone)
InWeek(m) == 0 <= m /\ m < WeekMinutes

\* C12 as stated: after a save, the instant read back from utc.dayOfWeek and
\* utc.time of every start and finish is the instant of the local weekday and
\* time the draft gave, week boundary crossed or not
C12_Original ==
    SavedOk => \A k \in Windows : StartDrift(k) = 0 /\ FinishDrift(k) = 0

\* C12: after a save, the instant read back from utc.dayOfWeek and utc.time of
\* every start and finish is the instant of the local weekday and time the
\* draft gave, up to one week: the two are the same when the original instant
\* lies in the week of its weekday, and one week apart when the conversion
\* leaves that week
C12_UtcRoundTripModuloWeek ==
    SavedOk =>
      \A k \in Windows :
        LET start  == LocalInstant(ret.draft.workHours[k].day, ret.draft.workHours[k].start,
                                   ret.draft.timezone)
            finish == LocalInstant(ret.draft.workHours[k].day, ret.draft.workHours[k].finish,
                                   ret.draft.timezone)
        IN  /\ StartDrift(k) = (IF InWeek(start) THEN 0
                                ELSE IF start < 0 THEN WeekMinutes ELSE -WeekMinutes)
            /\ FinishDrift(k) = (IF InWeek(finish) THEN 0
                                 ELSE IF finish < 0 THEN WeekMinutes ELSE -WeekMinutes)

\* a saved entry whose start falls in the week before and whose finish falls on
\* another UTC day than its local day
C12_Witness ==
    /\ SavedOk
    /\ \E k \in Windows :
          /\ LocalInstant(ret.draft.workHours[k].day, ret.draft.workHours[k].start,
                          ret.draft.timezone) < 0
          /\ businessHourData.workHours[k].start.utc.dayOfWeek = Saturday
          /\ businessHourData.workHours[k].finish.utc.dayOfWeek = Saturday


\* the weekday and clock that lie `offset' minutes after a weekday and clock,
\* counted round the week
ShiftedDay(dc, offset) == ((WeekInstant(dc) + offset) % WeekMinutes) \div MinutesInDay
ShiftedTime(dc, offset) == ((WeekInstant(dc) + offset) % WeekMinutes) % MinutesInDay
CronIsUtcShifted(normalized) ==
    /\ normalized.cron.dayOfWeek = ShiftedDay(normalized.utc, serverOffset)
    /\ normalized.cron.time = ShiftedTime(normalized.utc, serverOffset)
    /\ serverOffset = 0 => normalized.cron = normalized.utc

\* C13: after a save, cron.dayOfWeek and cron.time of every start and finish are
\* the weekday and time reached by adding the server's UTC offset to
\* utc.dayOfWeek and utc.time, Saturday followed by Sunday and Sunday preceded
\* by Saturday; on a server at offset 0 cron equals utc
C13_TriggerKeyIsUtcPlusServerOffset ==
    SavedOk =>
      \A k \in Windows :
        /\ CronIsUtcShifted(businessHourData.workHours[k].start)
        /\ CronIsUtcShifted(businessHourData.workHours[k].finish)

\* a saved entry on a server east of UTC by a fraction of an hour, whose start is
\* a Saturday in UTC and a Sunday for the trigger
C13_Witness ==
    /\ SavedOk
    /\ serverOffset > 0
    /\ \E k \in Windows :
          LET hour == businessHourData.workHours[k]
          IN  /\ hour.start.utc.dayOfWeek = Saturday
              /\ hour.start.cron.dayOfWeek = Sunday
              /\ hour.start.cron.time % 60 # hour.start.utc.time % 60


\* the state C14 names: the stored status is not-available, put there by the
\* engine (the marker is true), and no status was set by hand (the default
\* status is not offline)
EngineNotAvailable(u) ==
    /\ u.statusLivechat = NOT_AVAILABLE
    /\ u.livechatStatusSystemModified = "true"
    /\ u.statusDefault # "offline"

\* the agent's document after the write of changeAgentActiveStatus
Written(us, agentId, status) ==
    [us EXCEPT ![agentId].statusLivechat = status,
               ![agentId].livechatStatusSystemModified = "true"]

\* C14 as stated: changeAgentActiveStatus changes nothing exactly when the
\* stored status is the engine's not-available and no status was set by hand;
\* in every other case it writes the status and sets the marker
C14_Original ==
    [][ret'.op = "changeAgentActiveStatus" =>
         IF EngineNotAvailable(users[ret'.agent])
         THEN users' = users
         ELSE users' = Written(users, ret'.agent, ret'.status)]_vars

\* C14: changeAgentActiveStatus changes nothing exactly when the agent's status
\* was set by hand (the marker is not true, or the default status is offline);
\* in every other case it writes the given status, whatever the stored status
\* is, and leaves the marker set
C14_NoOpExactlyWhenManual ==
    [][ret'.op = "changeAgentActiveStatus" =>
         IF ManualMarker(users[ret'.agent])
         THEN users' = users
         ELSE /\ users' = Written(users, ret'.agent, ret'.status)
              /\ users'[ret'.agent].livechatStatusSystemModified = "true"]_vars

\* the engine's not-available has just been overwritten with available, and an
\* agent whose status was set by hand exists beside it
C14_Witness ==
    /\ ret.op = "changeAgentActiveStatus"
    /\ ret.status = AVAILABLE
    /\ ret.after = ""
    /\ ~ManualMarker(users[ret.agent])
    /\ users[ret.agent].statusLivechat = AVAILABLE
    /\ \E a \in Agents : ManualMarker(users[a])


\* C15 as stated: asked for an agent that onNewAgentCreated has just set
\* not-available on a closed default schedule, allowAgentChangeServiceStatus
\* returns true
C15_Original ==
    (ret.op = "allowAgentChangeServiceStatus" /\ ret.after = "closed") => ret.flag

\* C15: allowAgentChangeServiceStatus returns false for an agent that has no
\* schedule assigned, as an agent created while the default schedule is closed
\* is left by onNewAgentCreated, in every call until a schedule is assigned to
\* the agent
C15_UnassignedAgentNotAllowed ==
    (ret.op = "allowAgentChangeServiceStatus" /\ users[ret.agent].openBusinessHours = {})
        => ~ret.flag

\* allowAgentChangeServiceStatus has answered false right after onNewAgentCreated
\* took its closed branch for the agent, which has no schedule and the status
\* that branch gives
C15_Witness ==
    /\ ret.op = "allowAgentChangeServiceStatus"
    /\ ret.after = "closed"
    /\ users[ret.agent].openBusinessHours = {}
    /\ users[ret.agent].statusLivechat = NOT_AVAILABLE
    /\ ~ret.flag


\* C16: after saveBusinessHour, whether it returned or threw, the caller's draft
\* object is what the caller passed: active and the start and finish of every
\* entry are unchanged, the entries before a failing one included
C16_DraftUntouched ==
    ret.op = "saveBusinessHour" =>
      /\ businessHourData.active = ret.draft.active
      /\ \A k \in Windows :
            /\ businessHourData.workHours[k].start = ret.draft.workHours[k].start
            /\ businessHourData.workHours[k].finish = ret.draft.workHours[k].finish


\* C17: when onNewAgentCreated completes having assigned the default schedule
\* to the agent, that schedule is in the collection and is open at the server's
\* clock, whatever ran between the lookup, the determination and the write
C17_AssignedOnlyIfOpen ==
    (/\ ret.op = "onNewAgentCreated"
     /\ ret.flag
     /\ ret.id \in users[ret.agent].openBusinessHours)
        => /\ ret.id \in DOMAIN businessHours
           /\ MustBeOpened(businessHours[ret.id], now)


\* an entry whose finish is not later than its start on the clock of its day
Reversed(hour) == hour.finish.hhmm <= hour.start.hhmm

\* the stored value of one end of an entry carries the UTC weekday and time of
\* the local weekday and clock, and the trigger key that goes with them
NormalizedFrom(normalized, day, clock, zone) ==
    /\ normalized.time = clock
    /\ (RederivedInstant(normalized) - LocalInstant(day, clock, zone)) % WeekMinutes = 0
    /\ CronIsUtcShifted(normalized)

\* C18: a save of a draft in which every entry with finish equal to or earlier
\* than start is closed returns without error; each such closed entry is
\* normalized in the object saved, and the record the save wrote holds it
C18_ClosedWindowsNotValidated ==
    (/\ ret.op = "saveBusinessHour"
     /\ \A k \in Windows : Reversed(ret.draft.workHours[k]) => ~ret.draft.workHours[k].open)
        => /\ ret.error = NoError
           /\ \A k \in Windows :
                 LET hour  == ret.draft.workHours[k]
                     saved == businessHourData.workHours[k]
                 IN  Reversed(hour) =>
                       /\ ~saved.open
                       /\ NormalizedFrom(saved.start, hour.day, hour.start, ret.draft.timezone)
                       /\ NormalizedFrom(saved.finish, hour.day, hour.finish, ret.draft.timezone)
                       /\ ret.id \in DOMAIN businessHours
                             => businessHours[ret.id].workHours[k] = saved

\* a saved draft with a closed entry whose finish is earlier than its start and
\* an open entry in order, both in the record written
C18_Witness ==
    /\ ret.op = "saveBusinessHour"
    /\ ret.error = NoError
    /\ ret.id \in DOMAIN businessHours
    /\ Len(businessHours[ret.id].workHours) = Len(ret.draft.workHours)
    /\ \E k \in Windows : /\ ~ret.draft.workHours[k].open
                          /\ ret.draft.workHours[k].finish.hhmm < ret.draft.workHours[k].start.hhmm
                          /\ businessHours[ret.id].workHours[k].finish.utc.dayOfWeek
                                # businessHours[ret.id].workHours[k].start.utc.dayOfWeek
    /\ \E k \in Windows : ret.draft.workHours[k].open

=============================================================================
